---- MODULE Spec2Model ----
(***************************************************************************)
(* BTU Task Schedule: the document controller of                           *)
(* btu/btu_core/doctype/btu_task_schedule/btu_task_schedule.py.            *)
(*                                                                         *)
(* Python values are modelled as follows.                                  *)
(*   None            <<>>            (an optional value is a 0/1-tuple)    *)
(*   a value v       <<v>>                                                 *)
(*   a cron string   the sequence of its whitespace-separated fields, each *)
(*                   field the text of that field                          *)
(*   an exception    a record field `raised` naming the place that raised  *)
(***************************************************************************)
EXTENDS Integers, Sequences, FiniteSets, TLC

VARIABLES
    db,         \* the persisted BTU Task Schedule records, by name
    lastSubmit, \* per name: outcome of the most recent reload request sent
    last        \* what the most recent operation was given, did and returned

vars == <<db, lastSubmit, last>>

-----------------------------------------------------------------------------
(* Bounds of the model.                                                    *)

\* number of pipe-free record names in use
MaxSchedules == 2

-----------------------------------------------------------------------------
(* Python values.                                                          *)

None == <<>>

Some(v) == <<v>>

\* Python truthiness of an optional int: None and 0 are falsy.
FalsyInt(x) == x = None \/ x[1] = 0

\* Python truthiness of an optional string: None and "" are falsy.
FalsyStr(x) == x = None \/ x[1] = ""

\* str(n) for the integers the model uses
DecimalRange == -99..99

DecimalText == [n \in DecimalRange |-> ToString(n)]

\* the texts int() accepts
DecimalTexts == {DecimalText[n] : n \in DecimalRange}

\* int(s)
TextDecimal == [s \in DecimalTexts |-> CHOOSE n \in DecimalRange : DecimalText[n] = s]

\* int(s) succeeds
IsInt(s) == s \in DecimalTexts

IntOf(s) == TextDecimal[s]

\* s is str(n) for an n of lo..hi
IsDecimalIn(s, lo, hi) == IsInt(s) /\ lo <= IntOf(s) /\ IntOf(s) <= hi

\* str.isdigit(): the decimal texts of the non-negative integers
IsDigit(s) == IsDecimalIn(s, 0, 99)

\* str.title() on the texts the model uses; any other text is already in
\* title case or has no cased letters
TitleTable ==
    [s \in {"Jan", "jan", "JAN", "Feb", "feb", "FEB", "Mar", "Apr", "May",
            "Jun", "Jul", "Aug", "Sep", "Oct", "Nov", "Dec",
            "Mon", "mon", "MON", "Tue", "Wed", "Thu", "Fri", "Sat", "Sun"} |->
        CASE s \in {"jan", "JAN"} -> "Jan"
          [] s \in {"feb", "FEB"} -> "Feb"
          [] s \in {"mon", "MON"} -> "Mon"
          [] OTHER -> s]

Title(s) == IF s \in DOMAIN TitleTable THEN TitleTable[s] ELSE s

\* s[:3] on the texts the model uses
First3Table ==
    [s \in {"Monday", "Tuesday", "Wednesday", "Thursday", "Friday",
            "Saturday", "Sunday", "Funday"} |->
        CASE s = "Monday" -> "Mon"
          [] s = "Tuesday" -> "Tue"
          [] s = "Wednesday" -> "Wed"
          [] s = "Thursday" -> "Thu"
          [] s = "Friday" -> "Fri"
          [] s = "Saturday" -> "Sat"
          [] s = "Sunday" -> "Sun"
          [] s = "Funday" -> "Fun"]

First3(s) == IF s \in DOMAIN First3Table THEN First3Table[s] ELSE s

\* calendar.month_abbr[1..12]
MonthAbbr ==
    <<"Jan", "Feb", "Mar", "Apr", "May", "Jun",
      "Jul", "Aug", "Sep", "Oct", "Nov", "Dec">>

\* month_dict.get(text): the index of a month abbreviation, None if unknown
MonthDictGet(text) ==
    IF \E i \in DOMAIN MonthAbbr : MonthAbbr[i] = text
    THEN Some(CHOOSE i \in DOMAIN MonthAbbr : MonthAbbr[i] = text)
    ELSE None

IsLeap(year) == (year % 4 = 0 /\ year % 100 # 0) \/ year % 400 = 0

\* calendar.monthrange(year, m)[1]
MonthRangeLast(year, m) ==
    CASE m = 2 -> IF IsLeap(year) THEN 29 ELSE 28
      [] m \in {4, 6, 9, 11} -> 30
      [] OTHER -> 31

\* str(int(hour) - diff) where diff is the float (offset in seconds) / 3600:
\* the text of the float (60*h - offsetMinutes) / 60.  Every UTC offset is a
\* multiple of 15 minutes.
FloatHourStr(h, offsetMinutes) ==
    LET t == 60 * h - offsetMinutes
        a == IF t < 0 THEN 0 - t ELSE t
        frac == CASE a % 60 = 0 -> ".0"
                  [] a % 60 = 15 -> ".25"
                  [] a % 60 = 30 -> ".5"
                  [] a % 60 = 45 -> ".75"
    IN (IF t < 0 THEN "-" ELSE "") \o DecimalText[a \div 60] \o frac

-----------------------------------------------------------------------------
(* The cron grammar checked by btu.validate_cron_string: five fields,      *)
(* minute, hour, day of month, month, day of week, each "*" or a value of  *)
(* the standard cron field grammar.                                        *)

MonthNames == {"Jan", "Feb", "Mar", "Apr", "May", "Jun",
               "Jul", "Aug", "Sep", "Oct", "Nov", "Dec"}

DayNames == {"Mon", "Tue", "Wed", "Thu", "Fri", "Sat", "Sun"}

IsMinuteToken(t) == t \in {"*", "*/5"} \/ IsDecimalIn(t, 0, 59)

IsHourToken(t) == t = "*" \/ IsDecimalIn(t, 0, 23)

IsDayOfMonthToken(t) == t = "*" \/ IsDecimalIn(t, 1, 31)

\* names are matched without regard to case
IsMonthToken(t) == t = "*" \/ Title(t) \in MonthNames \/ IsDecimalIn(t, 1, 12)

IsDayOfWeekToken(t) == t = "*" \/ Title(t) \in DayNames \/ IsDecimalIn(t, 0, 7)

IsCronString(fields) ==
    /\ Len(fields) = 5
    /\ IsMinuteToken(fields[1])
    /\ IsHourToken(fields[2])
    /\ IsDayOfMonthToken(fields[3])
    /\ IsMonthToken(fields[4])
    /\ IsDayOfWeekToken(fields[5])

\* validate_cron_string(text, error_on_invalid): TRUE iff the call raises.
\* Without error_on_invalid the verdict is the return value, which the caller
\* at line 91 discards.
ValidateCronStringRaises(fields, error_on_invalid) ==
    error_on_invalid /\ ~IsCronString(fields)

\* str(self.cron_string): str(None) is the one-field text "None"
StrOfCronString(cron_string) ==
    IF cron_string = None THEN <<"None">> ELSE cron_string[1]

\* cron_descriptor.get_description(text): raises on a text it cannot parse
\* (throw_exception_on_parse_error is the library's default)
GetDescriptionRaises(fields) == ~IsCronString(fields)

\* cron_descriptor.get_description(text): the rendering of that text
GetDescription(fields) == [rendering_of |-> fields]

-----------------------------------------------------------------------------
(* A BTU Task Schedule document.                                           *)

Frequencies == {"Hourly", "Daily", "Weekly", "Monthly", "Yearly", "Cron Style"}

NewDoc(name, freq, minute, hour, dow, dom, month, cron, enabled, job) ==
    [name |-> name, run_frequency |-> freq, minute |-> minute, hour |-> hour,
     day_of_week |-> dow, day_of_month |-> dom, month |-> month,
     cron_string |-> cron, schedule_description |-> None,
     enabled |-> enabled, redis_job_id |-> job]

\* the system clock as the code reads it: the local UTC offset in minutes
\* (get_utc_time_diff) and the current year (datetime.now().year)
Clock(offsetMinutes, year) == [offset |-> offsetMinutes, year |-> year]

-----------------------------------------------------------------------------
(* Static functions.  A ...Raises operator is TRUE iff the call raises.    *)

check_minutes_raises(minute) ==
    FalsyInt(minute) \/ ~(0 <= minute[1] /\ minute[1] < 60)

check_hours_raises(hour) ==
    \/ FalsyStr(hour)
    \/ ~IsDigit(hour[1])
    \/ ~(0 <= IntOf(hour[1]) /\ IntOf(hour[1]) < 24)

check_day_of_week_raises(day_of_week) == FalsyStr(day_of_week)

\* check_day_of_month() that compares the day with 31 whatever the month
check_day_of_month_any_month(run_frequency, day, month, year) ==
    \/ run_frequency = "Monthly" /\ FalsyStr(day)
    \/ /\ run_frequency = "Yearly"
       /\ IF ~FalsyStr(day) /\ ~FalsyStr(month)
          THEN LET idx == MonthDictGet(Title(month[1]))
               IN \/ idx = None
                  \/ ~IsInt(day[1])
                  \/ IntOf(day[1]) > 31
          ELSE TRUE

check_day_of_month_raises(run_frequency, day, month, year) ==
    \/ run_frequency = "Monthly" /\ FalsyStr(day)
    \/ /\ run_frequency = "Yearly"
       /\ IF ~FalsyStr(day) /\ ~FalsyStr(month)
          THEN LET idx == MonthDictGet(Title(month[1]))
               IN \/ idx = None             \* monthrange(year, None): TypeError
                  \/ ~IsInt(day[1])         \* int(day): ValueError
                  \/ IntOf(day[1]) > MonthRangeLast(year, idx[1])
          ELSE TRUE

\* schedule_to_cron_string(doc): [raised, built, value].  `built` is the
\* candidate expression joined at line 256, None when an exception came
\* before it; `value` is the returned text.
schedule_to_cron_string(doc, clock) ==
    IF doc.run_frequency = "Cron Style"
    THEN [raised |-> FALSE, built |-> None, value |-> doc.cron_string]
    ELSE IF doc.hour # None /\ ~IsInt(doc.hour[1])
    THEN [raised |-> TRUE, built |-> None, value |-> None]
    ELSE LET cron ==
                <<IF doc.minute = None THEN "*" ELSE DecimalText[doc.minute[1]],
                  IF doc.hour = None THEN "*"
                  ELSE FloatHourStr(IntOf(doc.hour[1]), clock.offset),
                  IF doc.day_of_month = None THEN "*" ELSE doc.day_of_month[1],
                  IF doc.month = None THEN "*" ELSE doc.month[1],
                  IF doc.day_of_week = None THEN "*"
                  ELSE First3(doc.day_of_week[1])>>
         IN IF ValidateCronStringRaises(cron, TRUE)
            THEN [raised |-> TRUE, built |-> Some(cron), value |-> None]
            ELSE [raised |-> FALSE, built |-> Some(cron), value |-> Some(cron)]

-----------------------------------------------------------------------------
(* Controller hooks.  Each returns [raised, doc, ...]: whether it raised   *)
(* and the document as it left it.                                         *)

\* lines 45-60: clear the fields that are not relevant for the frequency
ClearIrrelevantFields(doc) ==
    CASE doc.run_frequency = "Cron Style" ->
            [doc EXCEPT !.day_of_week = None, !.day_of_month = None,
                        !.month = None, !.hour = None, !.minute = None]
      [] doc.run_frequency = "Hourly" ->
            [doc EXCEPT !.day_of_week = None, !.day_of_month = None,
                        !.month = None, !.hour = None]
      [] doc.run_frequency = "Daily" ->
            [doc EXCEPT !.day_of_week = None, !.day_of_month = None,
                        !.month = None]
      [] OTHER -> doc

before_validate(doc) ==
    IF doc.cron_string # None /\ doc.cron_string[1] # <<>>
    THEN IF GetDescriptionRaises(doc.cron_string[1])
         THEN [raised |-> TRUE, doc |-> doc]
         ELSE [raised |-> FALSE,
               doc |-> ClearIrrelevantFields(
                   [doc EXCEPT !.schedule_description =
                       Some(GetDescription(doc.cron_string[1]))])]
    ELSE [raised |-> FALSE, doc |-> ClearIrrelevantFields(doc)]

\* the checks validate() runs before translating, per frequency
FieldChecksRaise(doc, clock) ==
    CASE doc.run_frequency = "Hourly" -> check_minutes_raises(doc.minute)
      [] doc.run_frequency = "Daily" ->
            check_hours_raises(doc.hour) \/ check_minutes_raises(doc.minute)
      [] doc.run_frequency = "Weekly" ->
            \/ check_day_of_week_raises(doc.day_of_week)
            \/ check_hours_raises(doc.hour)
            \/ check_minutes_raises(doc.minute)
      [] doc.run_frequency = "Monthly" ->
            \/ check_day_of_month_raises("Monthly", doc.day_of_month, None,
                                         clock.year)
            \/ check_hours_raises(doc.hour)
            \/ check_minutes_raises(doc.minute)
      [] doc.run_frequency = "Yearly" ->
            \/ check_day_of_month_raises("Yearly", doc.day_of_month, doc.month,
                                         clock.year)
            \/ check_hours_raises(doc.hour)
            \/ check_minutes_raises(doc.minute)
      [] OTHER -> FALSE

\* validate(): [raised, doc, built]
validate(doc, clock) ==
    IF doc.run_frequency = "Cron Style"
    THEN [raised |-> ValidateCronStringRaises(StrOfCronString(doc.cron_string),
                                              FALSE),
          doc |-> doc, built |-> None]
    ELSE IF doc.run_frequency \notin Frequencies
    THEN [raised |-> FALSE, doc |-> doc, built |-> None]
    ELSE IF FieldChecksRaise(doc, clock)
    THEN [raised |-> TRUE, doc |-> doc, built |-> None]
    ELSE LET r == schedule_to_cron_string(doc, clock)
         IN IF r.raised
            THEN [raised |-> TRUE, doc |-> doc, built |-> r.built]
            ELSE [raised |-> FALSE,
                  doc |-> [doc EXCEPT !.cron_string = r.value],
                  built |-> r.built]

-----------------------------------------------------------------------------
(* The BTU Scheduler daemon as the controller sees it through SchedulerAPI.*)
(* A request ends in one of: a response text ("ok"), no response ("none"), *)
(* a response that starts with 'Exception while connecting' ("sentinel"),  *)
(* an exception raised by the client ("raise").                            *)

SubmitOutcomes == {"ok", "none", "sentinel", "raise"}

\* cancel_schedule() does not inspect the response: any text is "ok"
CancelOutcomes == {"ok", "none", "raise"}

Request(kind, id, outcome) == [kind |-> kind, id |-> id, outcome |-> outcome]

\* resubmit_task_schedule(autosave=False): [raised, request]
resubmit_task_schedule(doc, outcome) ==
    [raised |-> outcome # "ok", request |-> Request("reload", doc.name, outcome)]

\* cancel_schedule(): [raised, doc, request]
cancel_schedule(doc, outcome) ==
    [raised |-> outcome = "raise",
     doc |-> IF outcome = "raise" THEN doc ELSE [doc EXCEPT !.redis_job_id = ""],
     request |-> Request("cancel", doc.name, outcome)]

\* '|' in self.name; a name is the sequence of its characters
HasPipe(name) == \E i \in DOMAIN name : name[i] = "|"

\* before_save() without the try/except of lines 99-102: the client's
\* exception leaves the hook
before_save_unguarded(doc, doc_orig, submitOutcome, cancelOutcome) ==
    IF HasPipe(doc.name)
    THEN [raised |-> "pipe", doc |-> doc, requests |-> <<>>, reported |-> FALSE]
    ELSE IF doc.enabled
    THEN LET r == resubmit_task_schedule(doc, submitOutcome)
         IN [raised |-> IF r.raised THEN "reload" ELSE "", doc |-> doc,
             requests |-> <<r.request>>, reported |-> FALSE]
    ELSE IF doc_orig # None /\ doc_orig[1].enabled # doc.enabled
    THEN LET c == cancel_schedule(doc, cancelOutcome)
         IN [raised |-> IF c.raised THEN "cancel" ELSE "", doc |-> c.doc,
             requests |-> <<c.request>>, reported |-> FALSE]
    ELSE [raised |-> "", doc |-> doc, requests |-> <<>>, reported |-> FALSE]

\* before_save() with the test of lines 95-96 moved below the requests
before_save_pipe_last(doc, doc_orig, submitOutcome, cancelOutcome) ==
    IF doc.enabled
    THEN LET r == resubmit_task_schedule(doc, submitOutcome)
         IN [raised |-> IF HasPipe(doc.name) THEN "pipe" ELSE "", doc |-> doc,
             requests |-> <<r.request>>, reported |-> r.raised]
    ELSE IF doc_orig # None /\ doc_orig[1].enabled # doc.enabled
    THEN LET c == cancel_schedule(doc, cancelOutcome)
         IN [raised |-> IF c.raised THEN "cancel"
                        ELSE IF HasPipe(doc.name) THEN "pipe" ELSE "",
             doc |-> c.doc, requests |-> <<c.request>>, reported |-> FALSE]
    ELSE [raised |-> IF HasPipe(doc.name) THEN "pipe" ELSE "", doc |-> doc,
          requests |-> <<>>, reported |-> FALSE]

\* before_save() that cancels for every disabled record, without looking at
\* the persisted version (line 105)
before_save_always_cancels(doc, doc_orig, submitOutcome, cancelOutcome) ==
    IF HasPipe(doc.name)
    THEN [raised |-> "pipe", doc |-> doc, requests |-> <<>>, reported |-> FALSE]
    ELSE IF doc.enabled
    THEN LET r == resubmit_task_schedule(doc, submitOutcome)
         IN [raised |-> "", doc |-> doc, requests |-> <<r.request>>,
             reported |-> r.raised]
    ELSE LET c == cancel_schedule(doc, cancelOutcome)
         IN [raised |-> IF c.raised THEN "cancel" ELSE "", doc |-> c.doc,
             requests |-> <<c.request>>, reported |-> FALSE]

\* before_save(): [raised, doc, requests, reported].  raised is "" or the
\* place that raised; reported is TRUE when line 102 showed the error.
before_save(doc, doc_orig, submitOutcome, cancelOutcome) ==
    IF HasPipe(doc.name)
    THEN [raised |-> "pipe", doc |-> doc, requests |-> <<>>, reported |-> FALSE]
    ELSE IF doc.enabled
    THEN LET r == resubmit_task_schedule(doc, submitOutcome)
         IN [raised |-> "", doc |-> doc, requests |-> <<r.request>>,
             reported |-> r.raised]
    ELSE IF doc_orig # None /\ doc_orig[1].enabled # doc.enabled
    THEN LET c == cancel_schedule(doc, cancelOutcome)
         IN [raised |-> IF c.raised THEN "cancel" ELSE "", doc |-> c.doc,
             requests |-> <<c.request>>, reported |-> FALSE]
    ELSE [raised |-> "", doc |-> doc, requests |-> <<>>, reported |-> FALSE]

\* Document.save() with before_save() run ahead of validate(): its requests
\* are sent although validate() raises
SaveAfterValidate_hooks_swapped(v, bs) ==
    IF v.raised
    THEN [raised |-> "validate", doc |-> v.doc, requests |-> bs.requests,
          reported |-> FALSE, built |-> v.built]
    ELSE [raised |-> bs.raised, doc |-> bs.doc, requests |-> bs.requests,
          reported |-> bs.reported, built |-> v.built]

\* Document.save() from validate() on: [raised, doc, requests, reported, built]
SaveAfterValidate(v, bs) ==
    IF v.raised
    THEN [raised |-> "validate", doc |-> v.doc, requests |-> <<>>,
          reported |-> FALSE, built |-> v.built]
    ELSE [raised |-> bs.raised, doc |-> bs.doc, requests |-> bs.requests,
          reported |-> bs.reported, built |-> v.built]

SaveAfterBeforeValidate(bv, doc_orig, clock, submitOutcome, cancelOutcome) ==
    IF bv.raised
    THEN [raised |-> "before_validate", doc |-> bv.doc, requests |-> <<>>,
          reported |-> FALSE, built |-> None]
    ELSE SaveAfterValidate(
             validate(bv.doc, clock),
             before_save(validate(bv.doc, clock).doc, doc_orig, submitOutcome,
                         cancelOutcome))

\* Document.save(): the hooks in the order before_validate, validate,
\* before_save; the first exception ends the save and nothing is written.
RunSave(doc, doc_orig, clock, submitOutcome, cancelOutcome) ==
    SaveAfterBeforeValidate(before_validate(doc), doc_orig, clock,
                            submitOutcome, cancelOutcome)

\* the outcome of the last reload request among `requests`, per name
RECURSIVE NoteSubmits(_, _)
NoteSubmits(ls, requests) ==
    IF requests = <<>> THEN ls
    ELSE LET q == Head(requests)
         IN NoteSubmits(
                IF q.kind = "reload" /\ q.id \in DOMAIN ls
                THEN [ls EXCEPT ![q.id] = IF q.outcome = "ok" THEN "ok" ELSE "failed"]
                ELSE ls,
                Tail(requests))

-----------------------------------------------------------------------------
(* get_last_execution_results(): the job hashes of Redis, 'rq:job:<id>',   *)
(* as a function from job id to None (no such key) or the hash's fields.   *)

\* zlib.compress(text), as the worker stores exc_info
Compress(text) == <<"zlib", text>>

\* zlib.decompress(data) raises zlib.error on data that is not a zlib stream
DecompressRaises(data) == ~(Len(data) = 2 /\ data[1] = "zlib")

Decompress(data) == data[2]

\* conn.hget(f'rq:job:{job_id}', field): None for a missing key or field
HGet(redis, job_id, field) ==
    IF job_id \in DOMAIN redis /\ redis[job_id] # None
    THEN redis[job_id][1][field]
    ELSE None

Message(text, arg) == [text |-> text, arg |-> arg]

\* get_last_execution_results() that looks at exc_info before the status
get_last_execution_results_payload_first(doc, redis) ==
    LET job_status == HGet(redis, doc.redis_job_id, "status")
        compressed_data == HGet(redis, doc.redis_job_id, "exc_info")
    IN IF job_status = None
       THEN [kind |-> "no_job_information", raised |-> FALSE,
             shown |-> <<Message("No job information is available for Job",
                                 doc.redis_job_id)>>]
       ELSE IF compressed_data # None
       THEN IF DecompressRaises(compressed_data[1])
            THEN [kind |-> "raised", raised |-> TRUE,
                  shown |-> <<Message("Job status =", job_status[1])>>]
            ELSE [kind |-> "results", raised |-> FALSE,
                  shown |-> <<Message("Job status =", job_status[1]),
                              Message(Decompress(compressed_data[1]), "")>>]
       ELSE IF job_status[1] = "finished"
       THEN [kind |-> "completed", raised |-> FALSE,
             shown |-> <<Message("Job completed successfully", doc.redis_job_id)>>]
       ELSE [kind |-> "no_results", raised |-> FALSE,
             shown |-> <<Message("Job status =", job_status[1]),
                         Message("No results available", "")>>]

\* get_last_execution_results(): [kind, raised, shown].  kind names the
\* return the call left by, shown is the sequence of msgprint messages.
\* None.decode() at line 152 raises, which the except of line 153 catches.
get_last_execution_results(doc, redis) ==
    LET job_status == HGet(redis, doc.redis_job_id, "status")
        compressed_data == HGet(redis, doc.redis_job_id, "exc_info")
    IN IF job_status = None
       THEN [kind |-> "no_job_information", raised |-> FALSE,
             shown |-> <<Message("No job information is available for Job",
                                 doc.redis_job_id)>>]
       ELSE IF job_status[1] = "finished"
       THEN [kind |-> "completed", raised |-> FALSE,
             shown |-> <<Message("Job completed successfully", doc.redis_job_id)>>]
       ELSE IF compressed_data = None
       THEN [kind |-> "no_results", raised |-> FALSE,
             shown |-> <<Message("Job status =", job_status[1]),
                         Message("No results available", "")>>]
       ELSE IF DecompressRaises(compressed_data[1])
       THEN [kind |-> "raised", raised |-> TRUE,
             shown |-> <<Message("Job status =", job_status[1])>>]
       ELSE [kind |-> "results", raised |-> FALSE,
             shown |-> <<Message("Job status =", job_status[1]),
                         Message(Decompress(compressed_data[1]), "")>>]

-----------------------------------------------------------------------------
(* Inputs.                                                                 *)

NamePalette == << <<"A">>, <<"B">>, <<"C">>, <<"D">> >>

PipeName == <<"A", "|", "1">>

Names == {NamePalette[i] : i \in 1..MaxSchedules} \cup {PipeName}

JobIds == {"", "J1"}

\* local UTC offsets in minutes: UTC, New York (EST), India
UtcOffsets == {0, -300, 330}

Years == {2026, 2028}

Clocks == {Clock(o, y) : o \in UtcOffsets, y \in Years}

\* the clock of the server the records are saved on
ServerClocks == {Clock(-300, 2026)}

EveryFiveMinutes == <<"*/5", "*", "*", "*", "*">>

FourFields == <<"0", "12", "*", "*">>

\* the documents a caller hands to save(): name, enabled and redis_job_id
\* are filled in by the action
SaveShapes ==
    {NewDoc(None, "Hourly", Some(30), None, None, None, None, None, TRUE, ""),
     NewDoc(None, "Hourly", None, None, None, None, None, None, TRUE, ""),
     NewDoc(None, "Daily", Some(30), Some("5"), None, None, None, None, TRUE, ""),
     NewDoc(None, "Cron Style", None, None, None, None, None, Some(FourFields),
            TRUE, "")}

SaveDocs(name) ==
    {[d EXCEPT !.name = name, !.enabled = e, !.redis_job_id = j] :
        d \in SaveShapes, e \in BOOLEAN, j \in JobIds}

\* the documents of the validation specification
ValidateDocs ==
    {NewDoc(NamePalette[1], f, mi, h, dw, dm, mo, c, TRUE, "") :
        f \in Frequencies,
        mi \in {None, Some(0), Some(30), Some(60)},
        h \in {None, Some("0"), Some("5"), Some("24")},
        dw \in {None, Some("Monday")},
        dm \in {None, Some("15"), Some("29"), Some("30"), Some("31")},
        mo \in {None, Some("Feb"), Some("Apr")},
        c \in {None, Some(EveryFiveMinutes), Some(FourFields)}}

\* records the table may hold when the program starts: written by an earlier
\* release or an import, they need not pass today's validate()
StoredShapes ==
    {[NewDoc(None, "Hourly", Some(30), None, None, None, None,
             Some(<<"30", "*", "*", "*", "*">>), TRUE, "J1")
        EXCEPT !.schedule_description =
            Some(GetDescription(<<"30", "*", "*", "*", "*">>))],
     NewDoc(None, "Hourly", None, None, None, None, None, None, TRUE, "J1"),
     NewDoc(None, "Hourly", Some(30), Some("5"), None, None, None, None,
            TRUE, "J1")}

StoredTables == [Names -> {None} \cup {Some(d) : d \in StoredShapes}]

\* the job ids Redis may hold a hash for
RedisJobIds == {"J1", "J2"}

\* the values of redis_job_id in the status specification
StatusJobIds == JobIds \cup RedisJobIds

JobStatuses == {"queued", "started", "failed", "finished"}

Payloads == {"Traceback 1", "Traceback 2"}

\* exc_info as stored: absent, compressed, or text that is not a zlib stream
StoredPayloads ==
    {None, Some(<<"plain", "text">>)} \cup {Some(Compress(t)) : t \in Payloads}

JobHashes ==
    {[status |-> st, exc_info |-> e] :
        st \in {None} \cup {Some(x) : x \in JobStatuses}, e \in StoredPayloads}

RedisTables == [RedisJobIds -> {None} \cup {Some(h) : h \in JobHashes}]

-----------------------------------------------------------------------------
(* State.                                                                  *)

\* `last` when nothing has run yet, and the shape of every `last`
NoLast ==
    [op |-> "none", name |-> None, given |-> None, was_enabled |-> None,
     enabled |-> None, redis |-> None, out |-> None, clock |-> None, raised |-> "", built |-> None,
     requests |-> <<>>, reported |-> FALSE, order |-> <<>>, invalid |-> {},
     failed |-> {}, unloaded |-> {}]

\* the enabled flag of the persisted version of a record, None for a new one
WasEnabled(doc_orig) ==
    IF doc_orig = None THEN None ELSE Some(doc_orig[1].enabled)

NeverSubmitted == [name \in Names |-> "none"]

Init ==
    /\ db = [name \in Names |-> None]
    /\ lastSubmit = NeverSubmitted
    /\ last = NoLast

InitStored ==
    /\ db \in {[name \in Names |->
                  IF t[name] = None THEN None
                  ELSE Some([t[name][1] EXCEPT !.name = name])] :
                 t \in StoredTables}
    /\ lastSubmit = NeverSubmitted
    /\ last = NoLast

\* the validation specification starts with the document and the clock given
InitValidate ==
    /\ db = [name \in Names |-> None]
    /\ lastSubmit = NeverSubmitted
    /\ \E doc \in ValidateDocs, clock \in Clocks :
          last = [NoLast EXCEPT !.given = Some(doc), !.clock = Some(clock)]

\* the status specification starts with the record and the Redis content
InitStatus ==
    /\ db = [name \in Names |-> None]
    /\ lastSubmit = NeverSubmitted
    /\ \E job \in StatusJobIds, redis \in RedisTables :
          last = [NoLast EXCEPT
                     !.given = Some(NewDoc(NamePalette[1], "Hourly", Some(30),
                                           None, None, None, None, None, TRUE,
                                           job)),
                     !.redis = Some(redis)]

-----------------------------------------------------------------------------
(* Operations.  The daemon's answer to a request is drawn only when the    *)
(* request is sent.                                                        *)

Kinds(requests) == {requests[i].kind : i \in DOMAIN requests}

SubmitDrawn(requests) ==
    IF "reload" \in Kinds(requests) THEN SubmitOutcomes ELSE {"ok"}

CancelDrawn(requests) ==
    IF "cancel" \in Kinds(requests) THEN CancelOutcomes ELSE {"ok"}

\* what a save that ended as r leaves behind
SaveEffect(name, r) ==
    /\ db' = IF r.raised = "" THEN [db EXCEPT ![name] = Some(r.doc)] ELSE db
    /\ lastSubmit' = NoteSubmits(lastSubmit, r.requests)
    /\ last' = [NoLast EXCEPT !.op = "save", !.name = Some(name),
                   !.was_enabled = WasEnabled(db[name]),
                   !.enabled = Some(r.doc.enabled),
                   !.raised = r.raised, !.requests = r.requests,
                   !.reported = r.reported]

\* doc.save() of a new or an existing record
Save(name) ==
    \E doc \in SaveDocs(name), clock \in ServerClocks :
      \E sent \in {RunSave(doc, db[name], clock, "ok", "ok").requests} :
        \E submitOutcome \in SubmitDrawn(sent),
           cancelOutcome \in CancelDrawn(sent) :
          \E r \in {RunSave(doc, db[name], clock, submitOutcome, cancelOutcome)} :
            SaveEffect(name, r)

\* on_trash() that asks the daemon only for a record that is enabled
on_trash_enabled_only(doc, cancelOutcome) ==
    IF doc.enabled
    THEN [raised |-> cancel_schedule(doc, cancelOutcome).raised,
          requests |-> <<cancel_schedule(doc, cancelOutcome).request>>]
    ELSE [raised |-> FALSE, requests |-> <<>>]

\* on_trash(): [raised, requests]
on_trash(doc, cancelOutcome) ==
    [raised |-> cancel_schedule(doc, cancelOutcome).raised,
     requests |-> <<cancel_schedule(doc, cancelOutcome).request>>]

DeleteEffect(name, c) ==
    /\ db' = IF c.raised THEN db ELSE [db EXCEPT ![name] = None]
    /\ lastSubmit' = IF c.raised THEN lastSubmit
                     ELSE [lastSubmit EXCEPT ![name] = "none"]
    /\ last' = [NoLast EXCEPT !.op = "delete", !.name = Some(name),
                   !.was_enabled = WasEnabled(db[name]),
                   !.raised = IF c.raised THEN "cancel" ELSE "",
                   !.requests = c.requests]

\* frappe.delete_doc(): on_trash() runs before the row is deleted, and an
\* exception from it keeps the row
Delete(name) ==
    /\ db[name] # None
    /\ \E cancelOutcome \in CancelOutcomes :
        \E c \in {on_trash(db[name][1], cancelOutcome)} :
            DeleteEffect(name, c)

ResubmitOneEffect(name, r, saves, s) ==
    /\ db' = IF saves /\ s.raised = ""
             THEN [db EXCEPT ![name] = Some(s.doc)] ELSE db
    /\ lastSubmit' = NoteSubmits(lastSubmit,
                        IF saves THEN <<r.request>> \o s.requests
                        ELSE <<r.request>>)
    /\ last' = [NoLast EXCEPT !.op = "resubmit_one", !.name = Some(name),
                   !.was_enabled = WasEnabled(db[name]),
                   !.raised = IF r.raised THEN "reload"
                              ELSE IF saves THEN s.raised ELSE "",
                   !.requests = IF saves THEN <<r.request>> \o s.requests
                                ELSE <<r.request>>,
                   !.reported = saves /\ s.reported]

\* resubmit_task_schedule(autosave) called on a loaded record: with autosave
\* the record is saved after a request that did not raise
ResubmitOne(name) ==
    /\ db[name] # None
    /\ \E autosave \in BOOLEAN, clock \in ServerClocks,
          first \in SubmitOutcomes :
        \E r \in {resubmit_task_schedule(db[name][1], first)},
           sent \in {IF first = "ok" /\ autosave
                     THEN RunSave(db[name][1], db[name], clock, "ok", "ok").requests
                     ELSE <<>>} :
          \E second \in SubmitDrawn(sent), cancelOutcome \in CancelDrawn(sent) :
            \E s \in {RunSave(db[name][1], db[name], clock, second,
                              cancelOutcome)} :
              ResubmitOneEffect(name, r, ~r.raised /\ autosave, s)

\* the orders frappe.db.get_all may return the names of S in
Orders(S) ==
    {o \in [1..Cardinality(S) -> S] :
        \A i, j \in 1..Cardinality(S) : i # j => o[i] # o[j]}

\* what the environment does to one iteration of resubmit_all_task_schedules:
\* whether frappe.get_doc raises, and how the daemon answers.  The loop
\* treats every failed reload alike, and cancel_schedule every response.
PassOutcomes ==
    {[loads |-> TRUE, submit |-> sb, cancel |-> c] :
        sb \in {"ok", "none", "raise"}, c \in {"ok", "raise"}}
    \cup {[loads |-> FALSE, submit |-> "ok", cancel |-> c] : c \in {"ok", "raise"}}

\* the except clause, lines 274-279: s is the save of the object that
\* doc_schedule is bound to, with enabled = False
PassHandler(noted, target, s) ==
    [noted EXCEPT
        !.db = IF s.raised = "" THEN [@ EXCEPT ![target.name] = Some(s.doc)]
               ELSE @,
        !.requests = @ \o s.requests,
        !.cur = Some(s.doc),
        !.raised = s.raised]

\* lines 271-273 done (v: validate, r: the reload request), what follows
PassAfterTry(acc, id, clock, o, v, r, cur) ==
    IF o.loads /\ ~v.raised /\ ~r.raised
    THEN [acc EXCEPT !.requests = @ \o <<r.request>>, !.cur = cur]
    ELSE IF cur = None
    THEN [acc EXCEPT !.unloaded = @ \cup {id}, !.raised = "unbound"]
    ELSE PassHandler(
            [acc EXCEPT
                !.requests = IF o.loads /\ ~v.raised THEN @ \o <<r.request>>
                             ELSE @,
                !.cur = cur,
                !.failed = IF o.loads THEN @ \cup {id} ELSE @,
                !.unloaded = IF o.loads THEN @ ELSE @ \cup {id}],
            [cur[1] EXCEPT !.enabled = FALSE],
            RunSave([cur[1] EXCEPT !.enabled = FALSE], acc.db[cur[1].name],
                    clock, "ok", o.cancel))

PassTry(acc, id, clock, o, v) ==
    PassAfterTry(acc, id, clock, o, v, resubmit_task_schedule(v.doc, o.submit),
                 IF o.loads THEN Some(v.doc) ELSE acc.cur)

\* one iteration of the loop at lines 269-279.  acc.cur is the object the
\* local variable doc_schedule is bound to (None before the first load).
PassStep(acc, id, clock, o) ==
    PassTry(acc, id, clock, o, validate(acc.db[id][1], clock))

\* the outcomes of one iteration that differ in a request that is sent
StepSent(o, sent) ==
    o.submit \in SubmitDrawn(sent) /\ o.cancel \in CancelDrawn(sent)

StepOutcomes(acc, id, clock) ==
    {o \in PassOutcomes :
        StepSent(o, PassStep([acc EXCEPT !.requests = <<>>], id, clock,
                             [o EXCEPT !.cancel = "ok"]).requests)}

\* the loop: an exception that leaves the handler ends the pass.  The set of
\* the states the pass can end in.
RECURSIVE RunPass(_, _, _, _)
RunPass(acc, order, i, clock) ==
    IF i > Len(order) \/ acc.raised # "" THEN {acc}
    ELSE UNION {RunPass(PassStep(acc, order[i], clock, o), order, i + 1, clock) :
                   o \in StepOutcomes(acc, order[i], clock)}

EnabledNames == {name \in Names : db[name] # None /\ db[name][1].enabled}

InvalidNames(clock) ==
    {name \in EnabledNames : validate(db[name][1], clock).raised}

PassStart ==
    [db |-> db, requests |-> <<>>, cur |-> None, failed |-> {},
     unloaded |-> {}, raised |-> ""]

PassEffect(order, invalid, end) ==
    /\ db' \in IF end.raised = "" THEN {end.db} ELSE {end.db, db}
    /\ lastSubmit' = NoteSubmits(lastSubmit, end.requests)
    /\ last' = [NoLast EXCEPT !.op = "resubmit_all", !.order = order,
                   !.invalid = invalid,
                   !.failed = end.failed, !.unloaded = end.unloaded,
                   !.raised = end.raised, !.requests = end.requests]

\* resubmit_all_task_schedules().  An exception that ends the pass reaches
\* the host, which may or may not roll back the rows the pass had written.
ResubmitAll ==
    \E order \in Orders(EnabledNames), clock \in ServerClocks :
        \E end \in RunPass(PassStart, order, 1, clock),
           invalid \in {InvalidNames(clock)} :
            PassEffect(order, invalid, end)

ValidationEffect(op, bv, v) ==
    last' = [last EXCEPT !.op = op,
                !.out = IF bv.raised THEN Some(bv.doc) ELSE Some(v.doc),
                !.raised = IF bv.raised THEN "before_validate"
                           ELSE IF v.raised THEN "validate" ELSE "",
                !.built = IF bv.raised THEN None ELSE v.built]

\* before_validate() then validate(), as Document.save() runs them
ValidationPass ==
    /\ last.op = "none"
    /\ \E bv \in {before_validate(last.given[1])} :
        \E v \in {validate(bv.doc, last.clock[1])} :
            ValidationEffect("validation_pass", bv, v)
    /\ UNCHANGED <<db, lastSubmit>>

\* validate() alone, as resubmit_all_task_schedules calls it at line 272
ValidateOnly ==
    /\ last.op = "none"
    /\ \E v \in {validate(last.given[1], last.clock[1])} :
        ValidationEffect("validate",
                         [raised |-> FALSE, doc |-> last.given[1]], v)
    /\ UNCHANGED <<db, lastSubmit>>

\* get_last_execution_results() on the record given
GetLastExecutionResults ==
    /\ last.op = "none"
    /\ \E r \in {get_last_execution_results(last.given[1], last.redis[1])} :
          last' = [last EXCEPT !.op = "get_last_execution_results",
                      !.out = Some(r),
                      !.raised = IF r.raised THEN "decompress" ELSE ""]
    /\ UNCHANGED <<db, lastSubmit>>

Next ==
    \/ \E name \in Names : Save(name)
    \/ \E name \in Names : Delete(name)
    \/ \E name \in Names : ResubmitOne(name)
    \/ ResubmitAll

\* on a table found with records: the pass over it, and saves of the record
\* whose name holds the pipe character
NextStored ==
    \/ ResubmitAll
    \/ \E name \in {nm \in Names : HasPipe(nm)} : Save(name)

\* check_day_of_month() alone, called as validate() calls it at lines 79
\* and 85
CheckDayOfMonth ==
    /\ last.op = "none"
    /\ last.given[1].run_frequency \in {"Monthly", "Yearly"}
    /\ \E raises \in {check_day_of_month_raises(
                         last.given[1].run_frequency,
                         last.given[1].day_of_month,
                         IF last.given[1].run_frequency = "Yearly"
                         THEN last.given[1].month ELSE None,
                         last.clock[1].year)} :
          last' = [last EXCEPT !.op = "check_day_of_month",
                      !.raised = IF raises THEN "check_day_of_month" ELSE ""]
    /\ UNCHANGED <<db, lastSubmit>>

NextValidate == ValidationPass \/ ValidateOnly \/ CheckDayOfMonth

\* the program, started on an empty table
Spec == Init /\ [][Next]_vars

\* the program, started on a table that already holds records
SpecStored == InitStored /\ [][NextStored]_vars

NextStatus == GetLastExecutionResults

\* get_last_execution_results applied to every record and Redis content
SpecStatus == InitStatus /\ [][NextStatus]_vars

\* the validation hooks applied to every document of ValidateDocs
SpecValidate == InitValidate /\ [][NextValidate]_vars

-----------------------------------------------------------------------------
(* Properties.                                                             *)

\* the record the last operation was about
LastDoc == db[last.name[1]]

\* the requests of the doc.save() the last operation ran, if it ran one
SaveRequests ==
    IF last.op = "save" THEN last.requests
    ELSE IF last.op = "resubmit_one" THEN Tail(last.requests)
    ELSE <<>>

SentWith(requests, kind, outcomes) ==
    \E i \in DOMAIN requests :
        requests[i].kind = kind /\ requests[i].outcome \in outcomes

\* the last operation was a save that took an enabled record to
\* enabled = false and reached the cancel request of line 107
Disabling ==
    /\ last.op = "save"
    /\ last.was_enabled = Some(TRUE)
    /\ SentWith(last.requests, "cancel", CancelOutcomes)

\* C1: after a save that flips enabled from true to false on an existing
\* record the record's redis_job_id is empty, whether the cancel request
\* returned a response, returned nothing or raised.
C1_DisableClearsHandle ==
    Disabling => LastDoc # None /\ LastDoc[1].redis_job_id = ""

\* C2: in every reachable state a schedule's redis_job_id is non-empty only
\* if the schedule is enabled and the most recent reload request for it
\* succeeded.
C2_HandleOnlyWhileSubmitted ==
    \A name \in Names :
        (db[name] # None /\ db[name][1].redis_job_id # "")
            => db[name][1].enabled /\ lastSubmit[name] = "ok"

\* C4: at the end of a resubmit-all pass every schedule whose validation or
\* reload request failed in the pass is persisted with enabled = false.
C4_FailedScheduleDisabled ==
    last.op = "resubmit_all" =>
        \A id \in last.failed : db[id] # None /\ ~db[id][1].enabled

\* C5: when the reload request of a save of an enabled record succeeds, the
\* record ends the save enabled and with a non-empty redis_job_id.
C5_HandleRecordedOnSuccess ==
    (last.op = "save" /\ SentWith(last.requests, "reload", {"ok"})) =>
        /\ last.raised = ""
        /\ LastDoc # None
        /\ LastDoc[1].enabled
        /\ LastDoc[1].redis_job_id # ""

\* C6: when the reload request of a save of an enabled record fails (no
\* response, the connection-failure response, or an exception of the
\* client), the save completes: the record is persisted with enabled = true
\* and the error is shown to the caller, not raised.
C6_FailedSubmitStillSaves ==
    SentWith(SaveRequests, "reload", SubmitOutcomes \ {"ok"}) =>
        /\ last.raised = ""
        /\ last.reported
        /\ LastDoc # None
        /\ LastDoc[1].enabled

\* a new record saved enabled while the client raised
C6_Witness ==
    /\ last.op = "save"
    /\ last.was_enabled = None
    /\ SentWith(last.requests, "reload", {"raise"})
    /\ last.reported
    /\ LastDoc # None /\ LastDoc[1].enabled

\* the ways the validation step of a save fails
ValidationFailures == {"before_validate", "validate", "pipe"}

\* C8: a save whose validation step fails (before_validate, validate or the
\* pipe test of before_save) leaves the table unchanged and sends no request.
C8_FailedValidationChangesNothing ==
    [][(last'.op = "save" /\ last'.raised \in ValidationFailures)
        => (db' = db /\ lastSubmit' = lastSubmit /\ last'.requests = <<>>)]_vars

\* an enabled persisted record whose save failed in validate()
C8_Witness ==
    /\ last.op = "save"
    /\ last.raised = "validate"
    /\ last.was_enabled = Some(TRUE)
    /\ LastDoc # None /\ LastDoc[1].enabled

\* the names a pass went over, and the reload requests it sent
PassNames == {last.order[i] : i \in DOMAIN last.order}

ReloadSentFor(id) ==
    \E i \in DOMAIN last.requests :
        last.requests[i].kind = "reload" /\ last.requests[i].id = id

\* a pass that went over exactly one schedule with an invalid definition
\* and none with a pipe in its name, loaded every record and was answered by
\* the daemon every time
OneInvalidPass ==
    /\ last.op = "resubmit_all"
    /\ \A id \in PassNames : ~HasPipe(id)
    /\ Cardinality(last.invalid) = 1
    /\ last.unloaded = {}
    /\ ~SentWith(last.requests, "reload", SubmitOutcomes \ {"ok"})
    /\ ~SentWith(last.requests, "cancel", CancelOutcomes \ {"ok"})

\* C3: in a resubmit-all pass over enabled schedules of which exactly one
\* has an invalid definition, each of the others receives a reload request
\* and stays enabled, wherever the invalid one falls in the order.
C3_InvalidScheduleDoesNotAbort ==
    OneInvalidPass =>
        \A id \in PassNames \ last.invalid :
            /\ ReloadSentFor(id)
            /\ db[id] # None /\ db[id][1].enabled

\* C7: a save of a record whose name holds the pipe character fails in its
\* validation step and sends no reload or cancel request, for a new and for
\* an existing record, enabled or not.
C7_PipeNameRejected ==
    (last.op = "save" /\ HasPipe(last.name[1])) =>
        /\ last.raised \in ValidationFailures
        /\ last.requests = <<>>

\* a save of an existing enabled record with a pipe in its name, stopped by
\* the test of before_save
C7_Witness ==
    /\ last.op = "save"
    /\ HasPipe(last.name[1])
    /\ last.was_enabled = Some(TRUE)
    /\ last.raised = "pipe"
    /\ LastDoc # None

\* the last step validated a Cron Style record whose cron_string is not a
\* cron expression of five fields
InvalidCronStyleValidated ==
    /\ last.op \in {"validate", "validation_pass"}
    /\ last.given[1].run_frequency = "Cron Style"
    /\ ~IsCronString(StrOfCronString(last.given[1].cron_string))

\* C9: validating a Cron Style record whose cron_string is not a valid
\* five-field cron expression raises; such a record never passes validate().
C9_InvalidCronStyleFails ==
    InvalidCronStyleValidated => last.raised # ""

\* the structured fields that mean nothing for a run frequency
NotMeaningful(run_frequency) ==
    CASE run_frequency = "Cron Style" ->
            {"minute", "hour", "day_of_month", "month", "day_of_week"}
      [] run_frequency = "Hourly" ->
            {"hour", "day_of_month", "month", "day_of_week"}
      [] run_frequency = "Daily" -> {"day_of_month", "month", "day_of_week"}
      [] run_frequency = "Weekly" -> {"day_of_month", "month"}
      [] run_frequency = "Monthly" -> {"month", "day_of_week"}
      [] run_frequency = "Yearly" -> {"day_of_week"}
      [] OTHER -> {}

\* the position of a structured field in the cron string
CronPosition ==
    [minute |-> 1, hour |-> 2, day_of_month |-> 3, month |-> 4,
     day_of_week |-> 5]

\* C10: after before_validate() followed by validate() every structured
\* field that is not meaningful for the run frequency is unset, and its
\* position of the cron string that was built is '*', for each of the six
\* frequencies and whatever the fields held before.
C10_IrrelevantFieldsUnset ==
    (last.op = "validation_pass" /\ last.raised # "before_validate") =>
        \A field \in NotMeaningful(last.out[1].run_frequency) :
            /\ last.out[1][field] = None
            /\ last.built # None => last.built[1][CronPosition[field]] = "*"

\* the last step ran before_validate() and validate() on a record of the
\* given frequency, and before_validate() did not raise
PassOver(run_frequency) ==
    /\ last.op = "validation_pass"
    /\ last.raised # "before_validate"
    /\ last.given[1].run_frequency = run_frequency

\* C11: for an Hourly record with minute m in 0..59 (0 included) the
\* validation pass succeeds and sets cron_string to 'm * * * *'; for a minute
\* outside 0..59 it raises.
C11_HourlyMinuteRange ==
    (PassOver("Hourly") /\ last.given[1].minute # None) =>
        IF last.given[1].minute[1] \in 0..59
        THEN /\ last.raised = ""
             /\ last.out[1].cron_string =
                    Some(<<DecimalText[last.given[1].minute[1]],
                           "*", "*", "*", "*">>)
        ELSE last.raised = "validate"

C13_DisabledSaveRequests ==
    (/\ last.op = "save"
     /\ last.enabled = Some(FALSE)
     /\ last.raised \notin ValidationFailures) =>
        IF last.was_enabled = Some(TRUE)
        THEN /\ Len(last.requests) = 1
             /\ last.requests[1].kind = "cancel"
             /\ last.requests[1].id = last.name[1]
        ELSE last.requests = <<>>

\* a disabled record saved again with enabled = false: nothing was sent
C13_Witness ==
    /\ last.op = "save"
    /\ last.enabled = Some(FALSE)
    /\ last.was_enabled = Some(FALSE)
    /\ last.raised = ""
    /\ last.requests = <<>>
    /\ LastDoc # None /\ ~LastDoc[1].enabled

\* the texts that denote h minus the UTC offset in hours, unwrapped: the
\* float text, and the integer text when the value is whole
ExactHourTexts(h, offsetMinutes) ==
    {FloatHourStr(h, offsetMinutes)}
    \cup (IF (60 * h - offsetMinutes) % 60 = 0
          THEN {DecimalText[(60 * h - offsetMinutes) \div 60]}
          ELSE {})

\* C14: for a Daily record with hour h in 0..23 and minute m in 0..59 the
\* validation pass sets cron_string to an expression whose minute field is m,
\* whose hour field is exactly h minus the local UTC offset in hours (not
\* wrapped modulo 24) and whose other three fields are '*'.  Minute 0, which
\* check_minutes refuses for every frequency (C11), is left to that claim.
C14_DailyHourShift ==
    (/\ PassOver("Daily")
     /\ last.given[1].minute # None /\ last.given[1].minute[1] \in 1..59
     /\ last.given[1].hour # None /\ IsDecimalIn(last.given[1].hour[1], 0, 23)) =>
        /\ last.raised = ""
        /\ last.out[1].cron_string # None
        /\ Len(last.out[1].cron_string[1]) = 5
        /\ last.out[1].cron_string[1][1] = DecimalText[last.given[1].minute[1]]
        /\ last.out[1].cron_string[1][2] \in
               ExactHourTexts(IntOf(last.given[1].hour[1]), last.clock[1].offset)
        /\ \A i \in 3..5 : last.out[1].cron_string[1][i] = "*"

\* the number of days of a month, by its abbreviation, in a year of this
\* century
DaysInMonth(month, year) ==
    CASE month = "Feb" -> IF year % 4 = 0 THEN 29 ELSE 28
      [] month \in {"Apr", "Jun", "Sep", "Nov"} -> 30
      [] OTHER -> 31

\* C15: check_day_of_month raises for a Yearly record that lacks the day or
\* the month, or whose day exceeds the number of days its month has in the
\* current year; so day 30 of Feb raises in every year.
C15_YearlyDayOfMonth ==
    (/\ last.op = "check_day_of_month"
     /\ last.given[1].run_frequency = "Yearly"
     /\ \/ last.given[1].day_of_month = None
        \/ last.given[1].month = None
        \/ IntOf(last.given[1].day_of_month[1]) >
               DaysInMonth(last.given[1].month[1], last.clock[1].year)) =>
        last.raised = "check_day_of_month"

\* day 30 of Feb was refused in a leap year
C15_Witness ==
    /\ last.op = "check_day_of_month"
    /\ last.given[1].run_frequency = "Yearly"
    /\ last.given[1].day_of_month = Some("30")
    /\ last.given[1].month = Some("Feb")
    /\ last.clock[1].year = 2028
    /\ last.raised = "check_day_of_month"

\* the last step read the status of the job of the record given
StatusRead == last.op = "get_last_execution_results"

\* C16: reading the status with an empty redis_job_id ends in an outcome of
\* its own, not in the outcome that reports a job for which Redis holds no
\* information.
C16_EmptyHandleIsInvalidArgument ==
    (StatusRead /\ last.given[1].redis_job_id = "") =>
        last.out[1].kind # "no_job_information"

\* the hash of the job of the record given, when Redis holds one with a
\* status
JobHashRead ==
    IF /\ StatusRead
       /\ last.given[1].redis_job_id \in RedisJobIds
       /\ last.redis[1][last.given[1].redis_job_id] # None
       /\ last.redis[1][last.given[1].redis_job_id][1].status # None
    THEN last.redis[1][last.given[1].redis_job_id]
    ELSE None

\* C17: for a job whose hash exists the call reports: success and no payload
\* when the status is 'finished', with or without a stored payload; the
\* decompressed payload unchanged when the status is another one and a
\* payload is stored; 'no results' when the status is another one and no
\* payload is stored.
C17_StatusReport ==
    JobHashRead # None =>
        LET h == JobHashRead[1]
            out == last.out[1]
        IN /\ h.status[1] = "finished" =>
                /\ out.kind = "completed"
                /\ Len(out.shown) = 1
                /\ out.shown[1].text = "Job completed successfully"
           /\ \A t \in Payloads :
                (h.status[1] # "finished" /\ h.exc_info = Some(Compress(t))) =>
                    /\ out.kind = "results"
                    /\ out.shown[Len(out.shown)].text = t
           /\ (h.status[1] # "finished" /\ h.exc_info = None) =>
                /\ out.kind = "no_results"
                /\ out.shown[Len(out.shown)].text = "No results available"

\* a finished job with a stored payload was reported as completed
C17_Witness ==
    /\ JobHashRead # None
    /\ JobHashRead[1].status = Some("finished")
    /\ JobHashRead[1].exc_info = Some(Compress("Traceback 1"))
    /\ last.out[1].kind = "completed"

\* the last step ran validate() on a record that is not Cron Style and all
\* the field checks of its frequency passed
FieldChecksPassed ==
    /\ last.op \in {"validate", "validation_pass"}
    /\ last.raised # "before_validate"
    /\ last.out[1].run_frequency # "Cron Style"
    /\ ~FieldChecksRaise(last.out[1], last.clock[1])

\* C18: whenever all field checks of a record that is not Cron Style pass,
\* the expression schedule_to_cron_string builds is a well-formed five-field
\* cron expression and the re-validation at its end does not raise: for
\* every frequency, every accepted field value and every UTC offset.
C18_BuiltExpressionWellFormed ==
    FieldChecksPassed =>
        /\ last.built # None
        /\ IsCronString(last.built[1])
        /\ last.raised = ""

\* C19: after every completed save of a record its schedule_description is
\* the rendering of the cron_string that the same save stored.
C19_DescriptionRendersCronString ==
    (last.op = "save" /\ last.raised = "") =>
        /\ LastDoc # None
        /\ LastDoc[1].cron_string # None
        /\ LastDoc[1].schedule_description =
               Some(GetDescription(LastDoc[1].cron_string[1]))

\* a pass over enabled schedules ended, and id was loaded, validated and
\* reloaded in it without a failure
Resubmitted(id) ==
    /\ last.op = "resubmit_all"
    /\ id \in PassNames
    /\ id \notin last.failed \cup last.unloaded
    /\ \E i \in DOMAIN last.requests :
          /\ last.requests[i].kind = "reload"
          /\ last.requests[i].id = id
          /\ last.requests[i].outcome = "ok"

\* C20: a schedule that a resubmit-all pass loaded, validated and reloaded
\* successfully is not disabled by the pass, also when loading a later
\* schedule fails.
C20_OnlyFailedScheduleDisabled ==
    \A id \in Names :
        Resubmitted(id) => db[id] # None /\ db[id][1].enabled

====
